---- MODULE Spec2Model ----
(***************************************************************************)
(* Model of src/lib.rs: the Vector3 value type over f64 and its operation  *)
(* set (dot, cross, length, normalized, and the add / sub / mul / div      *)
(* operator family).                                                       *)
(*                                                                         *)
(* f64 is modelled by a binary IEEE 754 format of reduced width: Prec      *)
(* significand bits, gradual underflow, signed zeros, signed infinities,   *)
(* one NaN, and round-to-nearest-even on every operation.  A finite value  *)
(* is kept as sign s and magnitude k, counted in units of the smallest     *)
(* subnormal, so 1.0 has k = 2^FracBits.                                   *)
(***************************************************************************)
EXTENDS Integers, Sequences, FiniteSets, TLC

\* ------------------------------------------------------------------------
\* The floating-point format
\* ------------------------------------------------------------------------
Prec == 5       \* significand bits (53 in f64)
FracBits == 8   \* 1.0 = 2^FracBits units of the smallest subnormal
TopExp == 10    \* binades above the one that holds the subnormals

Unit == 2 ^ FracBits                    \* k of 1.0
Limit == 2 ^ (Prec + TopExp)            \* first magnitude beyond the format
MaxK == (2 ^ Prec - 1) * 2 ^ TopExp     \* k of the largest finite value
MinNormalK == 2 ^ (Prec - 1)            \* k of the smallest normal value

NaN == [c |-> "nan", s |-> 0, k |-> 0]
Inf(sg) == [c |-> "inf", s |-> sg, k |-> 0]
Fin(sg, kk) == [c |-> "fin", s |-> sg, k |-> kk]

IsNaN(f) == f.c = "nan"
IsInf(f) == f.c = "inf"
IsFinite(f) == f.c = "fin"
IsZero(f) == f.c = "fin" /\ f.k = 0

\* Spacing exponent of the binade that holds magnitude q < Limit.
Level(q) == CHOOSE i \in 0..TopExp : q \div (2 ^ i) < 2 ^ Prec
                /\ (i = 0 \/ q \div (2 ^ (i - 1)) >= 2 ^ Prec)

Representable(kk) == kk >= 0 /\ kk < Limit /\ kk % (2 ^ Level(kk)) = 0

Float == {NaN} \cup {Inf(sg) : sg \in {0, 1}}
           \cup {Fin(sg, kk) : sg \in {0, 1}, kk \in {q \in 0..MaxK : Representable(q)}}

\* Round the non-negative rational num/den (in units) to the nearest
\* representable magnitude, ties to the even significand; overflow gives
\* infinity, underflow a subnormal or a signed zero.
Round(sg, num, den) ==
  LET q == num \div den IN
  IF q >= Limit THEN Inf(sg)
  ELSE LET g == 2 ^ Level(q)
           lo == (q \div g) * g
           hi == lo + g
           r == IF 2 * num < (lo + hi) * den THEN lo
                ELSE IF 2 * num > (lo + hi) * den THEN hi
                ELSE IF (lo \div g) % 2 = 0 THEN lo ELSE hi
       IN IF r >= Limit THEN Inf(sg) ELSE Fin(sg, r)

Xor(s1, s2) == (s1 + s2) % 2

\* unary minus (x - y is x + (-y))
FNeg(x) == IF IsNaN(x) THEN NaN ELSE [x EXCEPT !.s = 1 - x.s]

\* a + b
FAdd(x, y) ==
  IF IsNaN(x) \/ IsNaN(y) THEN NaN
  ELSE IF IsInf(x) /\ IsInf(y) THEN (IF x.s = y.s THEN x ELSE NaN)
  ELSE IF IsInf(x) THEN x
  ELSE IF IsInf(y) THEN y
  ELSE LET va == IF x.s = 1 THEN 0 - x.k ELSE x.k
           vb == IF y.s = 1 THEN 0 - y.k ELSE y.k
           v == va + vb
       IN IF v = 0 THEN Fin(IF x.s = 1 /\ y.s = 1 THEN 1 ELSE 0, 0)
          ELSE IF v < 0 THEN Round(1, 0 - v, 1)
          ELSE Round(0, v, 1)

\* a - b
FSub(x, y) == FAdd(x, FNeg(y))

\* a * b
FMul(x, y) ==
  IF IsNaN(x) \/ IsNaN(y) THEN NaN
  ELSE IF IsInf(x) \/ IsInf(y)
       THEN (IF IsZero(x) \/ IsZero(y) THEN NaN ELSE Inf(Xor(x.s, y.s)))
  ELSE LET sg == Xor(x.s, y.s)
           ea == Level(x.k)
           eb == Level(y.k)
           m == (x.k \div (2 ^ ea)) * (y.k \div (2 ^ eb))
           sh == ea + eb - FracBits
       IN IF m = 0 THEN Fin(sg, 0)
          ELSE IF sh >= Prec + TopExp THEN Inf(sg)
          ELSE IF sh >= 0 THEN Round(sg, m * 2 ^ sh, 1)
          ELSE Round(sg, m, 2 ^ (0 - sh))

\* a / b
FDiv(x, y) ==
  IF IsNaN(x) \/ IsNaN(y) THEN NaN
  ELSE IF IsInf(x) THEN (IF IsInf(y) THEN NaN ELSE Inf(Xor(x.s, y.s)))
  ELSE IF IsInf(y) THEN Fin(Xor(x.s, y.s), 0)
  ELSE IF IsZero(y) THEN (IF IsZero(x) THEN NaN ELSE Inf(Xor(x.s, y.s)))
  ELSE Round(Xor(x.s, y.s), x.k * Unit, y.k)

\* floor of the square root of n, one result bit per step
RECURSIVE ISqrt(_, _, _)
ISqrt(n, r, bit) ==
  IF bit = 0 THEN r
  ELSE IF (r + bit) * (r + bit) <= n THEN ISqrt(n, r + bit, bit \div 2)
  ELSE ISqrt(n, r, bit \div 2)

\* a.sqrt()
FSqrt(x) ==
  IF IsNaN(x) THEN NaN
  ELSE IF IsZero(x) THEN x
  ELSE IF x.s = 1 THEN NaN
  ELSE IF IsInf(x) THEN x
  ELSE LET n == x.k * Unit
           q == ISqrt(n, 0, 2 ^ ((Prec + TopExp + FracBits) \div 2 + 1))
           g == 2 ^ Level(q)
           lo == (q \div g) * g
           hi == lo + g
       IN IF (lo + hi) * (lo + hi) <= 4 * n THEN Fin(0, hi) ELSE Fin(0, lo)

\* a == b on f64 (PartialEq): NaN equals nothing, +0.0 equals -0.0
FEq(x, y) ==
  /\ ~IsNaN(x) /\ ~IsNaN(y)
  /\ \/ x = y
     \/ IsZero(x) /\ IsZero(y)

\* a >= b on f64 (PartialOrd)
FGe(x, y) ==
  /\ ~IsNaN(x) /\ ~IsNaN(y)
  /\ LET key(f) == IF IsInf(f) THEN (IF f.s = 1 THEN 0 - Limit ELSE Limit)
                   ELSE IF f.s = 1 THEN 0 - f.k ELSE f.k
     IN key(x) >= key(y)

\* ------------------------------------------------------------------------
\* Vector3 (src/lib.rs)
\* ------------------------------------------------------------------------
FromInt(n) == Fin(IF n < 0 THEN 1 ELSE 0, (IF n < 0 THEN 0 - n ELSE n) * Unit)

\* Vector3::new
new(x, y, z) == [x |-> x, y |-> y, z |-> z]

ZERO == new(FromInt(0), FromInt(0), FromInt(0))
ONE == new(FromInt(1), FromInt(1), FromInt(1))

\* derive(PartialEq) on Vector3: field by field
VEq(u, v) == FEq(u.x, v.x) /\ FEq(u.y, v.y) /\ FEq(u.z, v.z)

\* dot with the last term taken from self twice
dot_self_slip(self, other) ==
  FAdd(FAdd(FMul(self.x, other.x), FMul(self.y, other.y)), FMul(self.z, self.z))

\* dot with one sign wrong
dot_sign_slip(self, other) ==
  FAdd(FSub(FMul(self.x, other.x), FMul(self.y, other.y)), FMul(self.z, other.z))

\* Vector3::dot
dot(self, other) ==
  FAdd(FAdd(FMul(self.x, other.x), FMul(self.y, other.y)), FMul(self.z, other.z))

\* cross with a plus in the z component
cross_sign_slip(self, other) ==
  [x |-> FSub(FMul(self.y, other.z), FMul(self.z, other.y)),
   y |-> FSub(FMul(self.z, other.x), FMul(self.x, other.z)),
   z |-> FAdd(FMul(self.x, other.y), FMul(self.y, other.x))]

\* cross with a wrong field in the z component
cross_index_slip(self, other) ==
  [x |-> FSub(FMul(self.y, other.z), FMul(self.z, other.y)),
   y |-> FSub(FMul(self.z, other.x), FMul(self.x, other.z)),
   z |-> FSub(FMul(self.x, other.y), FMul(self.y, other.y))]

\* Vector3::cross
cross(self, other) ==
  [x |-> FSub(FMul(self.y, other.z), FMul(self.z, other.y)),
   y |-> FSub(FMul(self.z, other.x), FMul(self.x, other.z)),
   z |-> FSub(FMul(self.x, other.y), FMul(self.y, other.x))]

\* impl Add for Vector3
add(self, other) ==
  [x |-> FAdd(self.x, other.x), y |-> FAdd(self.y, other.y), z |-> FAdd(self.z, other.z)]

\* impl Sub for Vector3
sub(self, other) ==
  [x |-> FSub(self.x, other.x), y |-> FSub(self.y, other.y), z |-> FSub(self.z, other.z)]

\* impl Mul<f64> for Vector3
mul_f64(self, other) ==
  [x |-> FMul(self.x, other), y |-> FMul(self.y, other), z |-> FMul(self.z, other)]

\* scalar * vector that scales y by the x product
f64_mul_slip(self, other) ==
  [x |-> FMul(other.x, self), y |-> FMul(other.x, self), z |-> FMul(other.z, self)]

\* impl Mul<Vector3> for f64
f64_mul(self, other) == mul_f64(other, self)

\* vector * vector taken as the cross product
mul_as_cross(self, other) == cross(self, other)

\* impl Mul for Vector3
mul(self, other) ==
  [x |-> FMul(self.x, other.x), y |-> FMul(self.y, other.y), z |-> FMul(self.z, other.z)]

\* impl Div<f64> for Vector3
div_f64(self, other) ==
  [x |-> FDiv(self.x, other), y |-> FDiv(self.y, other), z |-> FDiv(self.z, other)]

\* impl Div<Vector3> for f64
f64_div(self, other) ==
  [x |-> FDiv(self, other.x), y |-> FDiv(self, other.y), z |-> FDiv(self, other.z)]

\* vector / vector without the reciprocal
div_no_recip(self, other) == mul(self, other)

\* impl Div for Vector3
div(self, other) == mul(self, f64_div(FromInt(1), other))

\* Vector3::length
length(self) == FSqrt(dot(self, self))

\* normalized dividing by the squared length
normalized_no_sqrt(self) == div_f64(self, dot(self, self))

\* normalized with a zero-length guard
normalized_guarded(self) ==
  IF IsZero(length(self)) THEN ZERO ELSE div_f64(self, length(self))

\* Vector3::normalized
normalized(self) == div_f64(self, length(self))

\* ------------------------------------------------------------------------
\* The caller: operands a, b and scalar s, and the last call with its result
\* ------------------------------------------------------------------------
VARIABLES a, b, s, op, result
vars == <<a, b, s, op, result>>

MaxFinite == Fin(0, MaxK)
MinSubnormal == Fin(0, 1)
NegZero == Fin(1, 0)
V(i, j, l) == new(FromInt(i), FromInt(j), FromInt(l))

GridVals == {FromInt(0), FromInt(2), FromInt(3)}
Vectors ==
  {new(x, y, z) : x \in GridVals, y \in GridVals, z \in GridVals}
    \cup {ONE, V(1, 2, 3), V(4, 5, 6), V(2, 4, 6), V(3, 4, 0), V(-2, -4, -6),
          new(NegZero, FromInt(0), FromInt(7)),
          new(MaxFinite, FromInt(0), FromInt(0)),
          new(MaxFinite, MaxFinite, FromInt(1)),
          new(MinSubnormal, FromInt(0), FromInt(0)),
          new(Fin(0, 12), Fin(0, 12), Fin(0, 12)),
          new(Inf(0), FromInt(1), FromInt(0)),
          new(Inf(1), Inf(0), FromInt(2)),
          new(NaN, FromInt(1), FromInt(1))}
Scalars == {FromInt(0), NegZero, FromInt(1), FromInt(2), FromInt(-1), FromInt(5),
            Inf(0), NaN}

IsVector(v) == DOMAIN v = {"x", "y", "z"} /\ v.x \in Float /\ v.y \in Float /\ v.z \in Float

Init ==
  /\ a \in Vectors
  /\ b \in Vectors
  /\ s \in Scalars
  /\ op = "init"
  /\ result = ZERO

\* a call takes its operands by value (Copy) and binds the returned value
Call(name, value) ==
  /\ op' = name
  /\ result' = value
  /\ UNCHANGED <<a, b, s>>

Dot == Call("dot", dot(a, b))
Cross == Call("cross", cross(a, b))
Length == Call("length", length(a))
Normalized == Call("normalized", normalized(a))

\* an add that writes the sum into its left operand
AddInPlace ==
  /\ op' = "add"
  /\ a' = add(a, b)
  /\ result' = a'
  /\ UNCHANGED <<b, s>>

Add == Call("add", add(a, b))
Sub == Call("sub", sub(a, b))
MulF64 == Call("mul_f64", mul_f64(a, s))
F64Mul == Call("f64_mul", f64_mul(s, a))
Mul == Call("mul", mul(a, b))
DivF64 == Call("div_f64", div_f64(a, s))
F64Div == Call("f64_div", f64_div(s, a))
Div == Call("div", div(a, b))

Next ==
  \/ Dot \/ Cross \/ Length \/ Normalized
  \/ Add \/ Sub
  \/ MulF64 \/ F64Mul \/ Mul
  \/ DivF64 \/ F64Div \/ Div

Spec == Init /\ [][Next]_vars

ScalarOps == {"dot", "length"}
VectorOps == {"cross", "normalized", "add", "sub", "mul_f64", "f64_mul", "mul",
              "div_f64", "f64_div", "div"}

\* ------------------------------------------------------------------------
\* Properties
\* ------------------------------------------------------------------------
Comps == {"x", "y", "z"}
Zero == FromInt(0)
One == FromInt(1)
NonFinite(x) == IsNaN(x) \/ IsInf(x)
HasNaN(v) == \E i \in Comps : IsNaN(v[i])
AllFinite(v) == \A i \in Comps : IsFinite(v[i])
\* equal under ==, or NaN on both sides
SameOrBothNaN(x, y) == (IsNaN(x) /\ IsNaN(y)) \/ FEq(x, y)

TypeOK ==
  /\ IsVector(a) /\ IsVector(b) /\ s \in Float
  /\ op \in {"init"} \cup ScalarOps \cup VectorOps
  /\ op \in ScalarOps => result \in Float
  /\ op \in VectorOps \cup {"init"} => IsVector(result)

\* C1 (as stated): for all a and b, cross(a, b) == -1 * cross(b, a) in every
\* component.
C1_Original ==
  op = "cross" => VEq(result, f64_mul(FromInt(-1), cross(b, a)))

\* C1 (amended): every component of cross(a, b) equals the same component of
\* -1 * cross(b, a) under ==, or is NaN in both.
C1_Anticommutative ==
  op = "cross" =>
    \A i \in Comps : SameOrBothNaN(result[i], f64_mul(FromInt(-1), cross(b, a))[i])

C1_Witness ==
  /\ op = "cross" /\ a = V(1, 2, 3) /\ b = V(4, 5, 6)
  /\ result = V(-3, 6, -3)
  /\ VEq(result, f64_mul(FromInt(-1), cross(b, a)))

\* C2 (as stated): dot(a, b) returns a.x*b.x + a.y*b.y + a.z*b.z and
\* dot(a, b) == dot(b, a) for all a and b.
C2_Original ==
  op = "dot" =>
    /\ result = FAdd(FAdd(FMul(a.x, b.x), FMul(a.y, b.y)), FMul(a.z, b.z))
    /\ FEq(result, dot(b, a))

\* C2 (amended): dot(a, b) returns a.x*b.x + a.y*b.y + a.z*b.z, and
\* dot(a, b) == dot(b, a) unless the product is NaN, and then both are NaN.
C2_Commutative ==
  op = "dot" =>
    /\ result = FAdd(FAdd(FMul(a.x, b.x), FMul(a.y, b.y)), FMul(a.z, b.z))
    /\ SameOrBothNaN(result, dot(b, a))

C2_Witness ==
  /\ op = "dot" /\ a = V(1, 2, 3) /\ b = V(4, 5, 6)
  /\ result = FromInt(32) /\ FEq(result, dot(b, a))

\* 1.0 / y is computed without rounding: y is NaN, zero or infinite, or the
\* rounded reciprocal times y is exactly 1
ExactReciprocal(y) ==
  \/ IsNaN(y) \/ IsInf(y) \/ IsZero(y)
  \/ /\ IsFinite(FDiv(One, y))
     /\ y.k * FDiv(One, y).k = Unit * Unit

\* C3 (as stated): for all a and b, a / b (computed as a * (1.0 / b)) equals
\* the direct component-wise quotient (a.x/b.x, a.y/b.y, a.z/b.z).
C3_Original ==
  op = "div" => \A i \in Comps : result[i] = FDiv(a[i], b[i])

\* C3 (amended): a / b is a * (1.0 / b) component-wise; a component equals
\* the direct quotient a_i / b_i whenever 1.0 / b_i is exact (b_i zero,
\* infinite, NaN, or a power of two with a representable reciprocal); for
\* b_i = 0 it is infinite when a_i is non-zero and NaN when a_i is zero.
C3_DivByReciprocal ==
  op = "div" =>
    \A i \in Comps :
      /\ result[i] = FMul(a[i], FDiv(One, b[i]))
      /\ ExactReciprocal(b[i]) => result[i] = FDiv(a[i], b[i])
      /\ IsZero(b[i]) /\ IsZero(a[i]) => IsNaN(result[i])
      /\ IsZero(b[i]) /\ ~IsZero(a[i]) /\ ~IsNaN(a[i]) => IsInf(result[i])
      /\ a = V(2, 4, 6) /\ b = V(2, 4, 6) => FEq(result[i], One)

C3_Witness ==
  /\ op = "div" /\ a = V(3, 3, 0) /\ b = V(0, 2, 0)
  /\ result = new(Inf(0), Round(0, 3 * Unit, 2), NaN)

\* the literal 0.6 and the literal 0.8
Lit_0_6 == Round(0, 6 * Unit, 10)
Lit_0_8 == Round(0, 8 * Unit, 10)

\* within 4 units in the last place of 1.0
NearOne(x) ==
  /\ IsFinite(x) /\ x.s = 0
  /\ (x.k - Unit) * 2 ^ (Prec - 1) <= 4 * Unit
  /\ (Unit - x.k) * 2 ^ (Prec - 1) <= 4 * Unit

\* C4 (as stated): for every v whose length is non-zero (taken here as
\* length(v) > 0, which leaves NaN out), length(normalized(v)) is 1.0 within
\* rounding; normalized((3,4,0)) is exactly (0.6, 0.8, 0.0) with length
\* exactly 1.0.
C4_Original ==
  op = "normalized" =>
    /\ FGe(length(a), Zero) /\ ~IsZero(length(a)) => NearOne(length(result))
    /\ a = V(3, 4, 0) =>
         /\ result = new(Lit_0_6, Lit_0_8, Zero)
         /\ FEq(length(result), One)

\* C4 (amended): for every v whose squared length dot(v, v) is a finite
\* normal number (it neither overflows nor underflows),
\* length(normalized(v)) is within 4 ulp of 1.0; normalized((3,4,0)) is
\* exactly (0.6, 0.8, 0.0) with length exactly 1.0.
C4_UnitLength ==
  op = "normalized" =>
    /\ IsFinite(dot(a, a)) /\ dot(a, a).k >= MinNormalK => NearOne(length(result))
    /\ a = V(3, 4, 0) =>
         /\ result = new(Lit_0_6, Lit_0_8, Zero)
         /\ FEq(length(result), One)

C4_Witness ==
  /\ op = "normalized" /\ a = V(3, 4, 0)
  /\ length(a) = FromInt(5)
  /\ result = new(Lit_0_6, Lit_0_8, Zero)
  /\ length(result) = One

\* C5: every operation returns a value for every input (no panic, no
\* error), and the unguarded cases return NaN or +/-infinity in the affected
\* components: v / 0.0 and normalized of a zero-length vector (ZERO among
\* them) in every component, s / v and a / b in each component where the
\* divisor's component is zero.
C5_Total ==
  /\ TypeOK
  /\ op = "div_f64" /\ IsZero(s) => \A i \in Comps : NonFinite(result[i])
  /\ op = "f64_div" => \A i \in Comps : IsZero(a[i]) => NonFinite(result[i])
  /\ op = "div" => \A i \in Comps : IsZero(b[i]) => NonFinite(result[i])
  /\ op = "normalized" /\ IsZero(length(a)) => \A i \in Comps : NonFinite(result[i])
  /\ op = "normalized" /\ a = ZERO => \A i \in Comps : IsNaN(result[i])

C5_Witness ==
  /\ op = "normalized" /\ a = ZERO
  /\ result = new(NaN, NaN, NaN)

\* number of trailing zero bits of n > 0, and n without them
RECURSIVE TrailingZeros(_)
TrailingZeros(n) == IF n % 2 = 1 THEN 0 ELSE 1 + TrailingZeros(n \div 2)
OddPart(n) == n \div (2 ^ TrailingZeros(n))

\* x1 * y1 = x2 * y2 in exact arithmetic, for finite x1, y1, x2, y2
SameExactProduct(x1, y1, x2, y2) ==
  IF x1.k = 0 \/ y1.k = 0 \/ x2.k = 0 \/ y2.k = 0
  THEN (x1.k = 0 \/ y1.k = 0) /\ (x2.k = 0 \/ y2.k = 0)
  ELSE /\ Xor(x1.s, y1.s) = Xor(x2.s, y2.s)
       /\ OddPart(x1.k) * OddPart(y1.k) = OddPart(x2.k) * OddPart(y2.k)
       /\ TrailingZeros(x1.k) + TrailingZeros(y1.k)
            = TrailingZeros(x2.k) + TrailingZeros(y2.k)

\* finite u and v with u_i * v_j = u_j * v_i exactly: one is a real multiple
\* of the other
ExactParallel(u, v) ==
  /\ AllFinite(u) /\ AllFinite(v)
  /\ \A i, j \in Comps : SameExactProduct(u[i], v[j], u[j], v[i])

\* C6 (as stated): for all parallel a and b (one a scalar multiple of the
\* other, the zero vector included), cross(a, b) is the zero vector.  Taken
\* here over finite a and b only.
C6_Original ==
  op = "cross" /\ ExactParallel(a, b) => VEq(result, ZERO)

\* C6 (amended): for all finite parallel a and b whose component products
\* a_i * b_j do not overflow, cross(a, b) is the zero vector.
C6_ParallelCross ==
  op = "cross" /\ ExactParallel(a, b)
      /\ (\A i, j \in Comps : IsFinite(FMul(a[i], b[j])))
    => VEq(result, ZERO)

C6_Witness ==
  /\ op = "cross" /\ a = V(-2, -4, -6) /\ b = V(1, 2, 3)
  /\ ExactParallel(a, b) /\ VEq(result, ZERO)

\* C7: for every v with no NaN component, length(v) = sqrt(dot(v, v)) >= 0.
C7_LengthNonNegative ==
  op = "length" =>
    /\ result = FSqrt(dot(a, a))
    /\ ~HasNaN(a) => FGe(result, Zero)

C7_Witness ==
  /\ op = "length" /\ a = V(3, 4, 0) /\ result = FromInt(5) /\ FGe(result, Zero)

\* C8 (as stated): for every v and s, s * v == v * s == (v.x*s, v.y*s, v.z*s).
C8_Original ==
  op = "f64_mul" =>
    /\ VEq(result, mul_f64(a, s))
    /\ VEq(result, new(FMul(a.x, s), FMul(a.y, s), FMul(a.z, s)))

\* C8 (amended): for every v and s, s * v and v * s have the same components
\* (v.x*s, v.y*s, v.z*s), and they are equal under == unless a component is
\* NaN.
C8_ScalarForms ==
  /\ op = "f64_mul" =>
       /\ result = mul_f64(a, s)
       /\ result = new(FMul(a.x, s), FMul(a.y, s), FMul(a.z, s))
       /\ ~HasNaN(result) => VEq(result, mul_f64(a, s))
  /\ op = "mul_f64" =>
       /\ result = f64_mul(s, a)
       /\ result = new(FMul(a.x, s), FMul(a.y, s), FMul(a.z, s))

C8_Witness ==
  /\ op = "f64_mul" /\ a = V(1, 2, 3) /\ s = FromInt(2)
  /\ result = V(2, 4, 6) /\ VEq(result, mul_f64(a, s))

\* C9: vector + vector, vector - vector and vector * vector are
\* component-wise: component i is a_i + b_i, a_i - b_i and a_i * b_i; so
\* vector * vector is the Hadamard product.
C9_ComponentWise ==
  /\ op = "add" => \A i \in Comps : result[i] = FAdd(a[i], b[i])
  /\ op = "sub" => \A i \in Comps : result[i] = FSub(a[i], b[i])
  /\ op = "mul" => \A i \in Comps : result[i] = FMul(a[i], b[i])
  /\ op = "add" /\ a = V(1, 2, 3) /\ b = V(4, 5, 6) => result = V(5, 7, 9)
  /\ op = "sub" /\ a = V(4, 5, 6) /\ b = V(1, 2, 3) => result = V(3, 3, 3)
  /\ op = "mul" /\ a = V(1, 2, 3) /\ b = V(1, 2, 3) => result = V(1, 4, 9)

C9_Witness ==
  /\ op = "mul" /\ a = V(1, 2, 3) /\ b = V(1, 2, 3)
  /\ result = V(1, 4, 9)
  /\ ~VEq(result, cross(a, b))
  /\ dot(a, b) = FromInt(14)

\* C10: no call changes its operands: a, b and s hold the same values after
\* every call, ZERO is (0,0,0) and ONE is (1,1,1) throughout.
C10_OperandsUnchanged ==
  /\ [][a' = a /\ b' = b /\ s' = s]_vars
  /\ [](ZERO = V(0, 0, 0) /\ ONE = V(1, 1, 1))

C10_Witness ==
  /\ op = "add" /\ a = V(1, 2, 3) /\ b = V(4, 5, 6)
  /\ result = V(5, 7, 9) /\ result # a /\ result # b

====
